---- MODULE Spec2Model ----
(***************************************************************************)
(* A model of placecare's search engine (src/src/place_search.rs): the     *)
(* KMP exact matcher, the IUPAC windowed matcher, the reverse-complement   *)
(* strand, the parallel per-motif workers that append to a mutex-guarded   *)
(* accumulator, and the final sort of one query's matches.                 *)
(*                                                                         *)
(* A string is a sequence of one-character strings; Rust's 0-based         *)
(* positions are kept, so chars[i] of the source is chars[i + 1] here.     *)
(***************************************************************************)
EXTENDS Integers, Sequences, FiniteSets, TLC

VARIABLES db, queries, qi, res_p, pc, descs, wpc, lock, res_exact, tie, build, kmp, scan, rev, corpus, lookup

vars == <<db, queries, qi, res_p, pc, descs, wpc, lock, res_exact, tie, build, kmp, scan, rev, corpus, lookup>>
svars == <<db, queries, qi, res_p, pc, descs, wpc, lock, res_exact, tie, build>>
\* The records of the functions stepped on their own, beside kmp and scan.
aux == <<rev, corpus, lookup>>

\* ------------------------------------------------------------------ bounds

\* Longest query sequence of the search specification.
MaxQueryLen == 3
\* Longest text and pattern handed to kmp_search.
MaxKmpText == 6
MaxKmpPat == 4
\* Longest text and pattern handed to kmp_search_with_iupac.
MaxScanText == 3
MaxScanPat == 2
\* Longest string handed to reverse_complement on its own.
MaxRevLen == 4
\* Most motifs in the input of the corpus construction, and most keys of one lookup.
MaxCorpusLen == 2
MaxKeys == 2

\* ------------------------------------------------------------------ strings

RECURSIVE StringsUpTo(_, _)
StringsUpTo(alphabet, n) ==
    IF n = 0 THEN {<<>>}
    ELSE LET shorter == StringsUpTo(alphabet, n - 1)
         IN  shorter \cup {Append(s, c) : s \in shorter, c \in alphabet}

Range(s) == {s[k] : k \in DOMAIN s}

\* ------------------------------------------------------------------ db.rs

\* The IUPAC code map to regex pattern.
init_iupac_map ==
    [c \in {"A", "C", "G", "T", "R", "Y", "M", "K", "S", "W", "B", "D", "H", "V", "N"} |->
        CASE c = "A" -> <<"A">>
          [] c = "C" -> <<"C">>
          [] c = "G" -> <<"G">>
          [] c = "T" -> <<"T">>
          [] c = "R" -> <<"[", "A", "G", "]">>
          [] c = "Y" -> <<"[", "C", "T", "]">>
          [] c = "M" -> <<"[", "A", "C", "]">>
          [] c = "K" -> <<"[", "G", "T", "]">>
          [] c = "S" -> <<"[", "G", "C", "]">>
          [] c = "W" -> <<"[", "A", "T", "]">>
          [] c = "B" -> <<"[", "C", "G", "T", "]">>
          [] c = "D" -> <<"[", "A", "G", "T", "]">>
          [] c = "H" -> <<"[", "A", "C", "T", "]">>
          [] c = "V" -> <<"[", "A", "C", "G", "]">>
          [] c = "N" -> <<"[", "A", "C", "G", "T", "]">>]

IUPAC_MAP == init_iupac_map

\* ------------------------------------------------------------------ tool functions

\* str::trim_start_matches(c): drop every leading c.
RECURSIVE trim_start_matches(_, _)
trim_start_matches(s, c) ==
    IF s # <<>> /\ Head(s) = c THEN trim_start_matches(Tail(s), c) ELSE s

\* str::trim_end_matches(c): drop every trailing c.
RECURSIVE trim_end_matches(_, _)
trim_end_matches(s, c) ==
    IF s # <<>> /\ s[Len(s)] = c
    THEN trim_end_matches(SubSeq(s, 1, Len(s) - 1), c)
    ELSE s

\* Literal equality that skips the table: the matcher without IUPAC classes.
is_iupac_match_literal_only(text_char, pattern_char) == pattern_char = text_char

\* The table lookup without the leading literal-equality test.
is_iupac_match_table_only(text_char, pattern_char) ==
    IF pattern_char \in DOMAIN IUPAC_MAP
    THEN LET regex_pattern == IUPAC_MAP[pattern_char]
         IN  IF Len(regex_pattern) = 1
             THEN regex_pattern[1] = text_char
             ELSE text_char \in Range(trim_end_matches(trim_start_matches(regex_pattern, "["), "]"))
    ELSE pattern_char = text_char

\* Check if a character in the text matches the IUPAC pattern.
is_iupac_match(text_char, pattern_char) ==
    IF pattern_char = text_char
    THEN TRUE
    ELSE IF pattern_char \in DOMAIN IUPAC_MAP
         THEN LET regex_pattern == IUPAC_MAP[pattern_char]
              IN  IF Len(regex_pattern) = 1
                  THEN regex_pattern[1] = text_char
                  ELSE LET chars_inside_brackets ==
                               trim_end_matches(trim_start_matches(regex_pattern, "["), "]")
                       IN  \E k \in DOMAIN chars_inside_brackets :
                               chars_inside_brackets[k] = text_char
         ELSE FALSE

\* The match with the 'G' arm lost: G falls through to the default arm.
ComplementWithoutG(c) ==
    CASE c = "A" -> "T"
      [] c = "T" -> "A"
      [] c = "C" -> "G"
      [] OTHER -> c

\* One character of the reverse-complement match.
Complement(c) ==
    CASE c = "A" -> "T"
      [] c = "T" -> "A"
      [] c = "C" -> "G"
      [] c = "G" -> "C"
      [] OTHER -> c

\* Get reverse complement chain.
RECURSIVE reverse_complement(_)
reverse_complement(query) ==
    IF query = <<>> THEN <<>>
    ELSE <<Complement(query[Len(query)])>>
             \o reverse_complement(SubSeq(query, 1, Len(query) - 1))

\* ------------------------------------------------------------------ KMP

\* The while loop of compute_lps, from the state (lps, len, i).
RECURSIVE LpsLoop(_, _, _, _)
LpsLoop(chars, lps, len, i) ==
    IF i < Len(chars)
    THEN IF chars[i + 1] = chars[len + 1]
         THEN LpsLoop(chars, [lps EXCEPT ![i + 1] = len + 1], len + 1, i + 1)
         ELSE IF len # 0
              THEN LpsLoop(chars, lps, lps[len], i)
              ELSE LpsLoop(chars, [lps EXCEPT ![i + 1] = 0], len, i + 1)
    ELSE lps

\* Compute the longest prefix-suffix (LPS) array.
compute_lps(pattern) == LpsLoop(pattern, [k \in 1..Len(pattern) |-> 0], 0, 1)

\* One iteration of kmp_search's loop that never falls back on the LPS array after
\* a match (restarts the pattern at 0).
KmpIterNoOverlap(text, pattern, lps, st) ==
    LET n == Len(text)
        m == Len(pattern)
        hit == pattern[st.j + 1] = text[st.i + 1]
        i1 == IF hit THEN st.i + 1 ELSE st.i
        j1 == IF hit THEN st.j + 1 ELSE st.j
    IN  IF j1 = m
        THEN [i |-> i1, j |-> 0, matches |-> Append(st.matches, i1 - j1)]
        ELSE IF i1 < n /\ pattern[j1 + 1] # text[i1 + 1]
             THEN IF j1 # 0
                  THEN [i |-> i1, j |-> lps[j1], matches |-> st.matches]
                  ELSE [i |-> i1 + 1, j |-> j1, matches |-> st.matches]
             ELSE [i |-> i1, j |-> j1, matches |-> st.matches]

\* One iteration of kmp_search's `while i < n` loop, from the state st = (i, j, matches).
KmpIter(text, pattern, lps, st) ==
    LET n == Len(text)
        m == Len(pattern)
        hit == pattern[st.j + 1] = text[st.i + 1]
        i1 == IF hit THEN st.i + 1 ELSE st.i
        j1 == IF hit THEN st.j + 1 ELSE st.j
    IN  IF j1 = m
        THEN [i |-> i1, j |-> lps[j1], matches |-> Append(st.matches, i1 - j1)]
        ELSE IF i1 < n /\ pattern[j1 + 1] # text[i1 + 1]
             THEN IF j1 # 0
                  THEN [i |-> i1, j |-> lps[j1], matches |-> st.matches]
                  ELSE [i |-> i1 + 1, j |-> j1, matches |-> st.matches]
             ELSE [i |-> i1, j |-> j1, matches |-> st.matches]

RECURSIVE KmpLoop(_, _, _, _)
KmpLoop(text, pattern, lps, st) ==
    IF st.i < Len(text)
    THEN KmpLoop(text, pattern, lps, KmpIter(text, pattern, lps, st))
    ELSE st.matches

\* KMP search algorithm: the 0-based positions of the matches.
kmp_search(text, pattern) ==
    IF pattern = <<>> THEN <<>>
    ELSE IF Len(pattern) > Len(text) THEN <<>>
    ELSE KmpLoop(text, pattern, compute_lps(pattern), [i |-> 0, j |-> 0, matches |-> <<>>])

\* The inner `for j in 0..m` loop at window i: TRUE when no offset fails.
RECURSIVE WindowMatches(_, _, _, _)
WindowMatches(text, pattern, i, j) ==
    IF j < Len(pattern)
    THEN IF ~is_iupac_match(text[i + j + 1], pattern[j + 1])
         THEN FALSE
         ELSE WindowMatches(text, pattern, i, j + 1)
    ELSE TRUE

\* The `'outer: for i in 0..=n - m` loop, from window i.
RECURSIVE ScanLoop(_, _, _, _)
ScanLoop(text, pattern, i, matches) ==
    IF i <= Len(text) - Len(pattern)
    THEN ScanLoop(text, pattern, i + 1,
                  IF WindowMatches(text, pattern, i, 0) THEN Append(matches, i) ELSE matches)
    ELSE matches

\* KMP search algorithm with IUPAC support.
kmp_search_with_iupac(text, pattern) ==
    IF pattern = <<>> THEN <<>>
    ELSE IF Len(pattern) > Len(text) THEN <<>>
    ELSE ScanLoop(text, pattern, 0, <<>>)

\* ------------------------------------------------------------------ build.rs

IsExactSq(desc) == \A k \in DOMAIN desc.sq : desc.sq[k] \in {"A", "C", "G", "T"}

IsIupacSq(desc) ==
    \E k \in DOMAIN desc.sq :
        desc.sq[k] \in {"R", "Y", "M", "K", "S", "W", "B", "D", "H", "V", "N"}

\* SeqBuilder::from_seq_builder
from_seq_builder(seq) ==
    [exact |-> SelectSeq(seq, IsExactSq),
     iupac |-> SelectSeq(seq, IsIupacSq),
     all   |-> seq]

\* The HashMap built by inserting keys[p] -> p for p = 0, 1, ...: a later insert of
\* the same key replaces the earlier one.
IndexOf(keys) ==
    [key \in Range(keys) |->
        CHOOSE p \in 0..(Len(keys) - 1) :
            /\ keys[p + 1] = key
            /\ \A r \in 0..(Len(keys) - 1) : keys[r + 1] = key => r <= p]

\* PlaceIndex::from_descs
from_descs(all_descs) ==
    [id_index |-> IndexOf([p \in DOMAIN all_descs |-> all_descs[p].id]),
     ac_index |-> IndexOf([p \in DOMAIN all_descs |-> all_descs[p].ac])]

\* place_db_serialize, then init_place_db: the PlaceDB the process holds.
place_db_serialize(seq_descs) ==
    [seq_desc |-> from_seq_builder(seq_descs), seq_index |-> from_descs(seq_descs)]

\* ------------------------------------------------------------------ inputs

\* The motifs a corpus is drawn from: two exact, two degenerate.
MotifPool ==
    << [id |-> "ABOX",  ac |-> "S000001", de |-> "a box",  sq |-> <<"A">>],
       [id |-> "ATBOX", ac |-> "S000002", de |-> "at box", sq |-> <<"A", "T">>],
       [id |-> "RBOX",  ac |-> "S000003", de |-> "r box",  sq |-> <<"R">>],
       [id |-> "RTBOX", ac |-> "S000004", de |-> "rt box", sq |-> <<"R", "T">>] >>

\* The motifs of the pool at the ordinals in keep, in pool order.
RECURSIVE PoolSelect(_, _)
PoolSelect(keep, k) ==
    IF k > Len(MotifPool) THEN <<>>
    ELSE (IF k \in keep THEN <<MotifPool[k]>> ELSE <<>>) \o PoolSelect(keep, k + 1)

Corpora == {PoolSelect(keep, 1) : keep \in SUBSET (1..Len(MotifPool))}

\* The characters of the raw query strings handed to RecordDesc::new.
QueryAlphabet == {"A", "T", "G", "R", "a"}

\* char::to_uppercase on the characters of the inputs. u0390 is U+0390, GREEK SMALL
\* LETTER IOTA WITH DIALYTIKA AND TONOS, whose uppercase is the three characters
\* U+0399 U+0308 U+0301.
to_uppercase(c) ==
    CASE c = "a" -> <<"A">>
      [] c = "t" -> <<"T">>
      [] c = "r" -> <<"R">>
      [] c = "u0390" -> <<"u0399", "u0308", "u0301">>
      [] OTHER -> <<c>>

\* char::len_utf8 on the characters of the inputs.
len_utf8(c) == IF c = "u0390" THEN 2 ELSE 1

\* str::to_uppercase
RECURSIVE str_to_uppercase(_)
str_to_uppercase(seq) ==
    IF seq = <<>> THEN <<>> ELSE to_uppercase(Head(seq)) \o str_to_uppercase(Tail(seq))

\* str::len: the length in bytes.
RECURSIVE str_len(_)
str_len(seq) ==
    IF seq = <<>> THEN 0 ELSE len_utf8(Head(seq)) + str_len(Tail(seq))

\* RecordDesc::new
RecordDesc_new(id, seq) ==
    [id |-> id, seq |-> str_to_uppercase(seq), len |-> str_len(seq)]

Queries == {RecordDesc_new("Q1", s) : s \in StringsUpTo(QueryAlphabet, MaxQueryLen)}

\* The batches handed to search_elements: one query, searched twice.
Batches == {<<q, q>> : q \in Queries}

\* ------------------------------------------------------------------ io.rs

\* SearchedDesc::new
SearchedDesc_new(q_id, q_start, q_end, q_dir, e_id, e_len, e_sq, e_ac, e_desc) ==
    [q_id |-> q_id, q_start |-> q_start, q_end |-> q_end, q_dir |-> q_dir,
     e_id |-> e_id, e_len |-> e_len, e_sq |-> e_sq, e_ac |-> e_ac, e_desc |-> e_desc]

\* SearchResult::new with the count left at zero.
SearchResult_new_count_zero(id, searched_descs) ==
    [id |-> id, count |-> 0, search_descs |-> searched_descs]

\* SearchResult::new
SearchResult_new(id, searched_descs) ==
    [id |-> id, count |-> Len(searched_descs), search_descs |-> searched_descs]

\* ------------------------------------------------------------------ place_search.rs

\* The SearchedDesc a forward-strand worker builds for the match at 0-based start.
ForwardDesc(query, pattern, start) ==
    LET end == start + Len(pattern.sq)
    IN  SearchedDesc_new(query.id, start + 1, end + 1, 1,
                         pattern.id, Len(pattern.sq), pattern.sq, pattern.ac, pattern.de)

\* The SearchedDesc a reverse-strand worker builds for the match at 0-based start of
\* the reverse complement. The subtractions are on usize: a result below zero is the
\* residue of the wrapped value (see usize_le).
ReverseDesc(query, pattern, start) ==
    LET end == start + Len(pattern.sq)
    IN  SearchedDesc_new(query.id, query.len + 1 - end, query.len + 1 - start, 0,
                         pattern.id, Len(pattern.sq), pattern.sq, pattern.ac, pattern.de)

\* The matches of one worker of the phase: kmp_search or kmp_search_with_iupac on the
\* query or on its reverse complement.
WorkerMatches(phase, query, pattern) ==
    LET text == IF phase \in {"exact_fwd", "iupac_fwd"}
                THEN query.seq
                ELSE reverse_complement(query.seq)
    IN  IF phase \in {"exact_fwd", "exact_rev"}
        THEN kmp_search(text, pattern.sq)
        ELSE kmp_search_with_iupac(text, pattern.sq)

\* query.len() + 1 - end goes below zero for a match of the worker: a panic where
\* overflow checks are compiled in, a wrapped value where they are not.
Overflows(phase, query, pattern) ==
    /\ phase \in {"exact_rev", "iupac_rev"}
    /\ \E k \in DOMAIN WorkerMatches(phase, query, pattern) :
           query.len + 1 < WorkerMatches(phase, query, pattern)[k] + Len(pattern.sq)

\* partial_descs of one worker of the phase, for its pattern.
PartialDescs(phase, query, pattern) ==
    LET matches == WorkerMatches(phase, query, pattern)
    IN  [k \in DOMAIN matches |->
            IF phase \in {"exact_fwd", "iupac_fwd"}
            THEN ForwardDesc(query, pattern, matches[k])
            ELSE ReverseDesc(query, pattern, matches[k])]

\* The motif list the workers of a phase iterate over.
PhaseSeqs(phase) ==
    IF phase \in {"exact_fwd", "exact_rev"} THEN db.seq_desc.exact ELSE db.seq_desc.iupac

\* a <= b on usize. A usize is kept as its residue modulo 2^64 nearest to zero: a
\* negative number n stands for 2^64 + n, the value a subtraction wraps to.
usize_le(a, b) == IF (a < 0) = (b < 0) THEN a <= b ELSE b < 0

\* slice.insert into a list sorted by q_start, after every element that is not greater.
RECURSIVE InsertByStart(_, _)
InsertByStart(sorted, x) ==
    IF sorted = <<>> THEN <<x>>
    ELSE IF usize_le(sorted[Len(sorted)].q_start, x.q_start)
         THEN Append(sorted, x)
         ELSE Append(InsertByStart(SubSeq(sorted, 1, Len(sorted) - 1), x), sorted[Len(sorted)])

\* A stable sort by q_start (what sort_by gives).
RECURSIVE StableSortByStart(_)
StableSortByStart(s) ==
    IF s = <<>> THEN <<>>
    ELSE InsertByStart(StableSortByStart(SubSeq(s, 1, Len(s) - 1)), s[Len(s)])

Reverse(s) == [k \in DOMAIN s |-> s[Len(s) + 1 - k]]

\* The sort left out: the concatenation as the workers appended it.
sort_skipped(searched, tie_order) == searched

\* searched.sort_unstable_by(|a, b| a.q_start.cmp(&b.q_start)): sorted by q_start, the
\* order of equal elements not specified. The library fixes one deterministic order
\* for them; tie_order is that choice: equal elements kept in their input order, or
\* put in the reverse of it.
sort_unstable_by(searched, tie_order) ==
    IF tie_order = "keep"
    THEN StableSortByStart(searched)
    ELSE StableSortByStart(Reverse(searched))

\* The accumulator replaced by the partial result instead of extended with it.
extend_overwrite(vec, items) == items

\* Vec::extend: the items appended, in order, behind what the vector holds.
extend(vec, items) == vec \o items

\* ------------------------------------------------------------------ the search

KmpOff == [pc |-> "off"]
ScanOff == [pc |-> "off"]
RevOff == [pc |-> "off"]

CorpusOff == [pc |-> "off"]
LookupOff == [pc |-> "off"]

\* The records of aux, idle.
AuxOff == rev = RevOff /\ corpus = CorpusOff /\ lookup = LookupOff

\* The search, idle: no corpus loaded, no batch.
SearchOff ==
    /\ db = place_db_serialize(<<>>)
    /\ queries = <<>>
    /\ tie = "keep"
    /\ build = "release"
    /\ qi = 1
    /\ res_p = <<>>
    /\ pc = "off"
    /\ descs = <<>>
    /\ wpc = <<>>
    /\ lock = 0
    /\ res_exact = <<>>

\* The query search_elements is at.
Query == queries[qi]

Init ==
    /\ db \in {place_db_serialize(c) : c \in Corpora}
    /\ queries \in Batches
    /\ tie \in {"keep", "reverse"}
    /\ build = "release"
    /\ qi = 1
    /\ res_p = <<>>
    /\ pc = "start"
    /\ descs = <<>>
    /\ wpc = <<>>
    /\ lock = 0
    /\ res_exact = <<>>
    /\ kmp = KmpOff
    /\ scan = ScanOff
    /\ AuxOff

\* The par_iter().for_each of a phase: one worker per motif of the list.
StartWorkers(phase) == [k \in 1..Len(PhaseSeqs(phase)) |-> "ready"]

AllWorkersDone == \A k \in DOMAIN wpc : wpc[k] = "done"

\* search_elements calls search_elements_single_seq on the next query, which calls
\* search_element_exact: a fresh accumulator and the forward workers.
search_elements_single_seq_call ==
    /\ pc = "start"
    /\ qi <= Len(queries)
    /\ pc' = "exact_fwd"
    /\ descs' = <<>>
    /\ res_exact' = <<>>
    /\ wpc' = StartWorkers("exact_fwd")
    /\ UNCHANGED <<db, queries, qi, res_p, lock, tie, build, kmp, scan, aux>>

\* descs.lock(): worker k, its partial_descs computed, takes the mutex.
worker_lock(k) ==
    /\ pc \in {"exact_fwd", "exact_rev", "iupac_fwd", "iupac_rev"}
    /\ wpc[k] = "ready"
    /\ ~(build = "debug" /\ Overflows(pc, Query, PhaseSeqs(pc)[k]))
    /\ lock = 0
    /\ lock' = k
    /\ wpc' = [wpc EXCEPT ![k] = "locked"]
    /\ UNCHANGED <<db, queries, qi, res_p, pc, descs, res_exact, tie, build, kmp, scan, aux>>

\* .unwrap().extend(partial_descs), and the guard dropped at the end of the statement.
worker_extend(k) ==
    /\ pc \in {"exact_fwd", "exact_rev", "iupac_fwd", "iupac_rev"}
    /\ wpc[k] = "locked"
    /\ lock = k
    /\ descs' = extend(descs, PartialDescs(pc, Query, PhaseSeqs(pc)[k]))
    /\ lock' = 0
    /\ wpc' = [wpc EXCEPT ![k] = "done"]
    /\ UNCHANGED <<db, queries, qi, res_p, pc, res_exact, tie, build, kmp, scan, aux>>

\* The forward for_each of search_element_exact has joined: the reverse workers start.
exact_forward_join ==
    /\ pc = "exact_fwd"
    /\ AllWorkersDone
    /\ pc' = "exact_rev"
    /\ wpc' = StartWorkers("exact_rev")
    /\ UNCHANGED <<db, queries, qi, res_p, descs, lock, res_exact, tie, build, kmp, scan, aux>>

\* search_element_exact returns its accumulator; search_element_iupac starts with a
\* fresh one.
search_element_exact_return ==
    /\ pc = "exact_rev"
    /\ AllWorkersDone
    /\ res_exact' = descs
    /\ descs' = <<>>
    /\ pc' = "iupac_fwd"
    /\ wpc' = StartWorkers("iupac_fwd")
    /\ UNCHANGED <<db, queries, qi, res_p, lock, tie, build, kmp, scan, aux>>

\* The forward for_each of search_element_iupac has joined: the reverse workers start.
iupac_forward_join ==
    /\ pc = "iupac_fwd"
    /\ AllWorkersDone
    /\ pc' = "iupac_rev"
    /\ wpc' = StartWorkers("iupac_rev")
    /\ UNCHANGED <<db, queries, qi, res_p, descs, lock, res_exact, tie, build, kmp, scan, aux>>

\* search_element_iupac returns; search_elements_single_seq concatenates, sorts and
\* wraps the matches, and search_elements extends res_p with the Ok value.
search_elements_single_seq_return ==
    /\ pc = "iupac_rev"
    /\ AllWorkersDone
    /\ LET res_iupac == descs
           searched == sort_unstable_by(res_exact \o res_iupac, tie)
       IN  res_p' = Append(res_p, SearchResult_new(Query.id, searched))
    /\ qi' = qi + 1
    /\ pc' = "start"
    /\ descs' = <<>>
    /\ res_exact' = <<>>
    /\ wpc' = <<>>
    /\ UNCHANGED <<db, queries, lock, tie, build, kmp, scan, aux>>

\* search_elements has gone through every query and returns Ok(res).
search_elements_return ==
    /\ pc = "start"
    /\ qi > Len(queries)
    /\ pc' = "done"
    /\ UNCHANGED <<db, queries, qi, res_p, descs, wpc, lock, res_exact, tie, build, kmp, scan, aux>>

Next ==
    \/ search_elements_single_seq_call
    \/ \E k \in DOMAIN wpc : worker_lock(k)
    \/ \E k \in DOMAIN wpc : worker_extend(k)
    \/ exact_forward_join
    \/ search_element_exact_return
    \/ iupac_forward_join
    \/ search_elements_single_seq_return
    \/ search_elements_return

Spec == Init /\ [][Next]_vars

\* ------------------------------------------------------------------ the batch, with faults

\* The characters of the raw query strings of the batches.
BatchAlphabet == {"a", "t", "u0390"}

\* The corpora of the batches.
BatchCorpora == {<<>>, <<MotifPool[1]>>, <<MotifPool[2], MotifPool[3]>>}

\* The batches: any query and a plain sibling, in either order.
FaultBatches ==
    LET sibling == RecordDesc_new("Q2", <<"t">>)
    IN  UNION {{<<RecordDesc_new("Q1", s), sibling>>, <<sibling, RecordDesc_new("Q1", s)>>} :
                  s \in StringsUpTo(BatchAlphabet, MaxQueryLen)}

InitBatch ==
    /\ db \in {place_db_serialize(c) : c \in BatchCorpora}
    /\ queries \in FaultBatches
    /\ tie \in {"keep", "reverse"}
    /\ build \in {"debug", "release"}
    /\ qi = 1
    /\ res_p = <<>>
    /\ pc = "start"
    /\ descs = <<>>
    /\ wpc = <<>>
    /\ lock = 0
    /\ res_exact = <<>>
    /\ kmp = KmpOff
    /\ scan = ScanOff
    /\ AuxOff

\* Worker k panics on `attempt to subtract with overflow` while it builds its
\* partial_descs, before it takes the mutex.
worker_panic(k) ==
    /\ pc \in {"exact_rev", "iupac_rev"}
    /\ wpc[k] = "ready"
    /\ build = "debug"
    /\ Overflows(pc, Query, PhaseSeqs(pc)[k])
    /\ wpc' = [wpc EXCEPT ![k] = "panicked"]
    /\ UNCHANGED <<db, queries, qi, res_p, pc, descs, lock, res_exact, tie, build, kmp, scan, aux>>

\* The for_each has joined with a panicked worker: rayon resumes the panic in the
\* caller, and nothing between it and the caller of search_elements catches it. The
\* locals, res_p among them, are dropped.
for_each_resume_unwind ==
    /\ pc \in {"exact_rev", "iupac_rev"}
    /\ \A k \in DOMAIN wpc : wpc[k] \in {"done", "panicked"}
    /\ \E k \in DOMAIN wpc : wpc[k] = "panicked"
    /\ pc' = "panicked"
    /\ res_p' = <<>>
    /\ descs' = <<>>
    /\ res_exact' = <<>>
    /\ wpc' = <<>>
    /\ UNCHANGED <<db, queries, qi, lock, tie, build, kmp, scan, aux>>

NextBatch ==
    \/ Next
    \/ \E k \in DOMAIN wpc : worker_panic(k)
    \/ for_each_resume_unwind

SpecBatch == InitBatch /\ [][NextBatch]_vars

\* ------------------------------------------------------------------ kmp_search, stepped

KmpAlphabet == {"A", "T"}

InitKmp ==
    /\ kmp \in {[pc |-> "call", text |-> t, pattern |-> p, lps |-> <<>>,
                 i |-> 0, j |-> 0, matches |-> <<>>] :
                    t \in StringsUpTo(KmpAlphabet, MaxKmpText),
                    p \in StringsUpTo(KmpAlphabet, MaxKmpPat)}
    /\ scan = ScanOff
    /\ AuxOff
    /\ SearchOff

\* The two early returns of kmp_search.
kmp_search_early_return ==
    /\ kmp.pc = "call"
    /\ kmp.pattern = <<>> \/ Len(kmp.pattern) > Len(kmp.text)
    /\ kmp' = [kmp EXCEPT !.pc = "return"]
    /\ UNCHANGED <<svars, scan, aux>>

\* compute_lps, and the pointers set to 0.
kmp_search_enter_loop ==
    /\ kmp.pc = "call"
    /\ ~(kmp.pattern = <<>> \/ Len(kmp.pattern) > Len(kmp.text))
    /\ kmp' = [kmp EXCEPT !.pc = "loop", !.lps = compute_lps(kmp.pattern),
                          !.i = 0, !.j = 0]
    /\ UNCHANGED <<svars, scan, aux>>

\* One iteration of `while i < n`.
kmp_search_iterate ==
    /\ kmp.pc = "loop"
    /\ kmp.i < Len(kmp.text)
    /\ LET st == KmpIter(kmp.text, kmp.pattern, kmp.lps,
                         [i |-> kmp.i, j |-> kmp.j, matches |-> kmp.matches])
       IN  kmp' = [kmp EXCEPT !.i = st.i, !.j = st.j, !.matches = st.matches]
    /\ UNCHANGED <<svars, scan, aux>>

\* The loop condition fails: kmp_search returns matches.
kmp_search_return ==
    /\ kmp.pc = "loop"
    /\ ~(kmp.i < Len(kmp.text))
    /\ kmp' = [kmp EXCEPT !.pc = "return"]
    /\ UNCHANGED <<svars, scan, aux>>

NextKmp ==
    \/ kmp_search_early_return
    \/ kmp_search_enter_loop
    \/ kmp_search_iterate
    \/ kmp_search_return

SpecKmp == InitKmp /\ [][NextKmp]_vars

\* ------------------------------------------------------------------ kmp_search_with_iupac, stepped

ScanTextAlphabet == {"A", "G", "T", "R", "X"}
ScanPatAlphabet == {"A", "T", "R", "N", "X"}

InitIupac ==
    /\ scan \in {[pc |-> "call", text |-> t, pattern |-> p, i |-> 0, matches |-> <<>>] :
                    t \in StringsUpTo(ScanTextAlphabet, MaxScanText),
                    p \in StringsUpTo(ScanPatAlphabet, MaxScanPat)}
    /\ kmp = KmpOff
    /\ AuxOff
    /\ SearchOff

\* The two early returns of kmp_search_with_iupac.
kmp_search_with_iupac_early_return ==
    /\ scan.pc = "call"
    /\ scan.pattern = <<>> \/ Len(scan.pattern) > Len(scan.text)
    /\ scan' = [scan EXCEPT !.pc = "return"]
    /\ UNCHANGED <<svars, kmp, aux>>

kmp_search_with_iupac_enter_loop ==
    /\ scan.pc = "call"
    /\ ~(scan.pattern = <<>> \/ Len(scan.pattern) > Len(scan.text))
    /\ scan' = [scan EXCEPT !.pc = "loop", !.i = 0]
    /\ UNCHANGED <<svars, kmp, aux>>

\* One pass of `'outer: for i in 0..=n - m`.
kmp_search_with_iupac_window ==
    /\ scan.pc = "loop"
    /\ scan.i <= Len(scan.text) - Len(scan.pattern)
    /\ scan' = [scan EXCEPT
                  !.i = scan.i + 1,
                  !.matches = IF WindowMatches(scan.text, scan.pattern, scan.i, 0)
                              THEN Append(scan.matches, scan.i)
                              ELSE scan.matches]
    /\ UNCHANGED <<svars, kmp, aux>>

\* The range is exhausted: kmp_search_with_iupac returns matches.
kmp_search_with_iupac_return ==
    /\ scan.pc = "loop"
    /\ ~(scan.i <= Len(scan.text) - Len(scan.pattern))
    /\ scan' = [scan EXCEPT !.pc = "return"]
    /\ UNCHANGED <<svars, kmp, aux>>

NextIupac ==
    \/ kmp_search_with_iupac_early_return
    \/ kmp_search_with_iupac_enter_loop
    \/ kmp_search_with_iupac_window
    \/ kmp_search_with_iupac_return

SpecIupac == InitIupac /\ [][NextIupac]_vars

\* ------------------------------------------------------------------ reverse_complement, applied twice

RevAlphabet == {"A", "C", "G", "T", "R", "X"}

InitRev ==
    /\ rev \in {[pc |-> "call", s |-> s, once |-> <<>>, twice |-> <<>>] :
                   s \in StringsUpTo(RevAlphabet, MaxRevLen)}
    /\ kmp = KmpOff
    /\ scan = ScanOff
    /\ corpus = CorpusOff
    /\ lookup = LookupOff
    /\ SearchOff

\* reverse_complement(s)
reverse_complement_call ==
    /\ rev.pc = "call"
    /\ rev' = [rev EXCEPT !.pc = "once", !.once = reverse_complement(rev.s)]
    /\ UNCHANGED <<svars, kmp, scan, corpus, lookup>>

\* reverse_complement of the string the first call returned.
reverse_complement_again ==
    /\ rev.pc = "once"
    /\ rev' = [rev EXCEPT !.pc = "twice", !.twice = reverse_complement(rev.once)]
    /\ UNCHANGED <<svars, kmp, scan, corpus, lookup>>

NextRev ==
    \/ reverse_complement_call
    \/ reverse_complement_again

SpecRev == InitRev /\ [][NextRev]_vars

\* ------------------------------------------------------------------ corpus construction and lookup

\* The motifs the input of place_db_serialize is drawn from: ids and accessions that
\* can repeat, and sequences that are exact, degenerate, or hold a character
\* outside the IUPAC symbols.
CorpusMotifs ==
    {[id |-> id, ac |-> ac, de |-> "", sq |-> sq] :
        id \in {"ABOX", "RBOX"}, ac \in {"S000001", "S000003"},
        sq \in {<<"A">>, <<"R">>, <<"A", "X">>}}

LookupKeys == {"ABOX", "S000001", "GHOST"}

\* Option<SeqDesc>
Some(x) == [tag |-> "Some", value |-> x]
None == [tag |-> "None"]

\* The body of the `for &id in query` loop with the else arm lost: an absent key
\* pushes nothing.
PushElementSkipAbsent(elements, map, key) ==
    IF key \in DOMAIN map
    THEN Append(elements, Some(db.seq_desc.all[map[key] + 1]))
    ELSE elements

\* The body of the `for &id in query` loop of query_elements_by_id and
\* query_elements_by_ac.
PushElement(elements, map, key) ==
    IF key \in DOMAIN map
    THEN Append(elements, Some(db.seq_desc.all[map[key] + 1]))
    ELSE Append(elements, None)

InitCorpus ==
    /\ corpus \in {[pc |-> "parsed", seq_descs |-> ds] :
                      ds \in UNION {[1..n -> CorpusMotifs] : n \in 0..MaxCorpusLen}}
    /\ lookup = LookupOff
    /\ rev = RevOff
    /\ kmp = KmpOff
    /\ scan = ScanOff
    /\ SearchOff

\* let place_index = PlaceIndex::from_descs(&seq_descs);
place_db_serialize_index ==
    /\ corpus.pc = "parsed"
    /\ corpus' = [pc |-> "indexed", seq_descs |-> corpus.seq_descs,
                  place_index |-> from_descs(corpus.seq_descs)]
    /\ UNCHANGED <<svars, kmp, scan, rev, lookup>>

\* let place_seq = SeqBuilder::from_seq_builder(seq_descs);
place_db_serialize_split ==
    /\ corpus.pc = "indexed"
    /\ corpus' = [pc |-> "split", seq_descs |-> corpus.seq_descs,
                  place_index |-> corpus.place_index,
                  place_seq |-> from_seq_builder(corpus.seq_descs)]
    /\ UNCHANGED <<svars, kmp, scan, rev, lookup>>

\* PlaceDB::new, written to place.db and decoded by init_place_db: PLACE_DB is set.
place_db_serialize_new ==
    /\ corpus.pc = "split"
    /\ db' = [seq_desc |-> corpus.place_seq, seq_index |-> corpus.place_index]
    /\ corpus' = [pc |-> "built", seq_descs |-> corpus.seq_descs]
    /\ lookup' = [pc |-> "idle"]
    /\ UNCHANGED <<queries, qi, res_p, pc, descs, wpc, lock, res_exact, tie, build, kmp, scan, rev>>

\* query_elements_by_id(query): an empty elements vector.
query_elements_by_id_call ==
    /\ lookup.pc = "idle"
    /\ \E keys \in UNION {[1..n -> LookupKeys] : n \in 0..MaxKeys} :
           lookup' = [pc |-> "by_id", query |-> keys, next |-> 1, elements |-> <<>>]
    /\ UNCHANGED <<svars, kmp, scan, rev, corpus>>

\* query_elements_by_ac(query): an empty elements vector.
query_elements_by_ac_call ==
    /\ lookup.pc = "idle"
    /\ \E keys \in UNION {[1..n -> LookupKeys] : n \in 0..MaxKeys} :
           lookup' = [pc |-> "by_ac", query |-> keys, next |-> 1, elements |-> <<>>]
    /\ UNCHANGED <<svars, kmp, scan, rev, corpus>>

\* One pass of `for &id in query`.
query_elements_by_id_push ==
    /\ lookup.pc = "by_id"
    /\ lookup.next <= Len(lookup.query)
    /\ lookup' = [lookup EXCEPT !.next = lookup.next + 1,
                                !.elements = PushElement(lookup.elements, db.seq_index.id_index,
                                                         lookup.query[lookup.next])]
    /\ UNCHANGED <<svars, kmp, scan, rev, corpus>>

\* One pass of `for &ac in query`.
query_elements_by_ac_push ==
    /\ lookup.pc = "by_ac"
    /\ lookup.next <= Len(lookup.query)
    /\ lookup' = [lookup EXCEPT !.next = lookup.next + 1,
                                !.elements = PushElement(lookup.elements, db.seq_index.ac_index,
                                                         lookup.query[lookup.next])]
    /\ UNCHANGED <<svars, kmp, scan, rev, corpus>>

\* The loop is over: elements is returned.
query_elements_return ==
    /\ lookup.pc \in {"by_id", "by_ac"}
    /\ lookup.next > Len(lookup.query)
    /\ lookup' = [pc |-> "returned", by |-> lookup.pc, query |-> lookup.query,
                  elements |-> lookup.elements]
    /\ UNCHANGED <<svars, kmp, scan, rev, corpus>>

NextCorpus ==
    \/ place_db_serialize_index
    \/ place_db_serialize_split
    \/ place_db_serialize_new
    \/ query_elements_by_id_call
    \/ query_elements_by_ac_call
    \/ query_elements_by_id_push
    \/ query_elements_by_ac_push
    \/ query_elements_return

SpecCorpus == InitCorpus /\ [][NextCorpus]_vars

\* ------------------------------------------------------------------ claims

\* The matches of every SearchResult returned so far.
ReturnedDescs == UNION {Range(res_p[r].search_descs) : r \in DOMAIN res_p}

\* The base set of an IUPAC symbol (the 15-symbol table).
IupacBases(c) ==
    CASE c = "A" -> {"A"}
      [] c = "C" -> {"C"}
      [] c = "G" -> {"G"}
      [] c = "T" -> {"T"}
      [] c = "R" -> {"A", "G"}
      [] c = "Y" -> {"C", "T"}
      [] c = "M" -> {"A", "C"}
      [] c = "K" -> {"G", "T"}
      [] c = "S" -> {"G", "C"}
      [] c = "W" -> {"A", "T"}
      [] c = "B" -> {"C", "G", "T"}
      [] c = "D" -> {"A", "G", "T"}
      [] c = "H" -> {"A", "C", "T"}
      [] c = "V" -> {"A", "C", "G"}
      [] c = "N" -> {"A", "C", "G", "T"}
      [] OTHER -> {}

IupacSymbols == {"A", "C", "G", "T", "R", "Y", "M", "K", "S", "W", "B", "D", "H", "V", "N"}
Wildcards == IupacSymbols \ {"A", "C", "G", "T"}

\* Membership as the specification words it: the table decides for a symbol it
\* holds, literal equality only for a symbol it does not hold.
MemberByTableFirst(text_char, pattern_char) ==
    IF pattern_char \in IupacSymbols
    THEN text_char \in IupacBases(pattern_char)
    ELSE text_char = pattern_char

\* Membership with literal equality always accepted.
MemberOrEqual(text_char, pattern_char) ==
    text_char = pattern_char \/ text_char \in IupacBases(pattern_char)

\* The motif occurs in the strand at the 1-based inclusive window [s, s + L - 1].
OccursAt(motif, strand, s) ==
    /\ Len(motif.sq) >= 1
    /\ s >= 1
    /\ s + Len(motif.sq) - 1 <= Len(strand)
    /\ \A j \in 1..Len(motif.sq) : MemberOrEqual(strand[s + j - 1], motif.sq[j])

\* C1: every returned match, on either strand and from either matcher, has
\* q_end - q_start + 1 = e_len (1-based inclusive coordinates).
C1_EndInclusive == \A d \in ReturnedDescs : d.q_end - d.q_start + 1 = d.e_len

\* C2: every occurrence of a motif in the reverse complement of the query, at the
\* 1-based inclusive positions [s, e] of the reverse complement, is reported with
\* strand flag 0, start = query length + 1 - e and end = query length + 1 - s.
C2_ReverseTranslated ==
    \A r \in DOMAIN res_p :
        LET query == queries[r]
            reverse == reverse_complement(query.seq)
        IN  \A p \in DOMAIN db.seq_desc.all, s \in 1..Len(reverse) :
                LET motif == db.seq_desc.all[p]
                    e == s + Len(motif.sq) - 1
                IN  OccursAt(motif, reverse, s) =>
                        \E d \in Range(res_p[r].search_descs) :
                            /\ d.q_dir = 0
                            /\ d.e_id = motif.id
                            /\ d.q_start = query.len + 1 - e
                            /\ d.q_end = query.len + 1 - s

\* C3: searching a query whose sequence is an exact corpus motif m returns a match
\* for m with start = 1, end = len(m) and direction 1.
C3_ExactSelfMatch ==
    \A r \in DOMAIN res_p, p \in DOMAIN db.seq_desc.exact :
        LET m == db.seq_desc.exact[p]
        IN  (m.sq # <<>> /\ queries[r].seq = m.sq) =>
                \E d \in Range(res_p[r].search_descs) :
                    /\ d.e_id = m.id
                    /\ d.q_start = 1
                    /\ d.q_end = Len(m.sq)
                    /\ d.q_dir = 1

\* C4: searching a query whose sequence is reverse_complement(m), for a corpus
\* motif m (exact or degenerate), returns a match for m with start = 1,
\* end = len(m) and direction 0.
C4_ReverseSelfMatch ==
    \A r \in DOMAIN res_p, p \in DOMAIN db.seq_desc.all :
        LET m == db.seq_desc.all[p]
        IN  (m.sq # <<>> /\ queries[r].seq = reverse_complement(m.sq)) =>
                \E d \in Range(res_p[r].search_descs) :
                    /\ d.e_id = m.id
                    /\ d.q_start = 1
                    /\ d.q_end = Len(m.sq)
                    /\ d.q_dir = 0

\* C5: in every returned SearchResult the matches are in non-decreasing order of
\* q_start, whatever order the workers appended their partial results in.
C5_SortedByStart ==
    \A r \in DOMAIN res_p :
        \A k \in DOMAIN res_p[r].search_descs, k2 \in DOMAIN res_p[r].search_descs :
            k < k2 => res_p[r].search_descs[k].q_start <= res_p[r].search_descs[k2].q_start

\* A result in which the sort moved a reverse-strand match of ABOX in front of a
\* forward-strand match of ABOX that was appended before it.
C5_Witness ==
    \E r \in DOMAIN res_p :
        \E k \in DOMAIN res_p[r].search_descs, k2 \in DOMAIN res_p[r].search_descs :
            /\ k < k2
            /\ res_p[r].search_descs[k].e_id = "ABOX"
            /\ res_p[r].search_descs[k2].e_id = "ABOX"
            /\ res_p[r].search_descs[k].q_dir = 0
            /\ res_p[r].search_descs[k2].q_dir = 1
            /\ res_p[r].search_descs[k].q_start < res_p[r].search_descs[k2].q_start

\* The place of a match in the discovery order: exact-forward, exact-reverse,
\* degenerate-forward, degenerate-reverse.
DiscoveryRank(d) ==
    IF \A k \in DOMAIN d.e_sq : d.e_sq[k] \in {"A", "C", "G", "T"}
    THEN (IF d.q_dir = 1 THEN 1 ELSE 2)
    ELSE (IF d.q_dir = 1 THEN 3 ELSE 4)

\* C6: within one SearchResult, matches with the same start appear in discovery
\* order: exact-forward, exact-reverse, degenerate-forward, degenerate-reverse.
C6_TiesInDiscoveryOrder ==
    \A r \in DOMAIN res_p :
        \A k \in DOMAIN res_p[r].search_descs, k2 \in DOMAIN res_p[r].search_descs :
            (k < k2 /\ res_p[r].search_descs[k].q_start = res_p[r].search_descs[k2].q_start)
                => DiscoveryRank(res_p[r].search_descs[k])
                       <= DiscoveryRank(res_p[r].search_descs[k2])

\* C7: two runs of search_elements_single_seq on the same query against the same
\* corpus return the same matches in the same order, whatever the schedules of the
\* workers were.
C7_SameOrderEveryRun ==
    \A r1 \in DOMAIN res_p, r2 \in DOMAIN res_p :
        queries[r1] = queries[r2] => res_p[r1].search_descs = res_p[r2].search_descs

\* C8: for every text and every non-empty pattern, kmp_search returns exactly the
\* 0-based positions i with text[i .. i + len(pattern)) = pattern, each once and in
\* ascending order, overlapping occurrences included.
C8_KmpAllOccurrences ==
    (kmp.pc = "return" /\ kmp.pattern # <<>>) =>
        LET n == Len(kmp.text)
            m == Len(kmp.pattern)
            occurrences == {i \in 0..(n - m) : SubSeq(kmp.text, i + 1, i + m) = kmp.pattern}
        IN  /\ Range(kmp.matches) = occurrences
            /\ \A k \in DOMAIN kmp.matches, k2 \in DOMAIN kmp.matches :
                   k < k2 => kmp.matches[k] < kmp.matches[k2]

\* kmp_search has returned both overlapping occurrences of AA in AAA.
C8_Witness ==
    /\ kmp.pc = "return"
    /\ kmp.text = <<"A", "A", "A">>
    /\ kmp.pattern = <<"A", "A">>
    /\ kmp.matches = <<0, 1>>

\* The pattern of the scan is a degenerate motif: it holds a wildcard symbol.
ScanPatternDegenerate == \E j \in DOMAIN scan.pattern : scan.pattern[j] \in Wildcards

\* The windows of the returned scan.
ScanWindows == 0..(Len(scan.text) - Len(scan.pattern))

\* C9 as stated: a degenerate motif is reported at window i iff every strand
\* character is in the IUPAC base set of the motif character at its offset, literal
\* equality being accepted only for a motif character with no table entry.
C9_TableFirstMembership ==
    (scan.pc = "return" /\ ScanPatternDegenerate) =>
        \A i \in ScanWindows :
            (i \in Range(scan.matches)) <=>
                \A j \in 1..Len(scan.pattern) :
                    MemberByTableFirst(scan.text[i + j], scan.pattern[j])

\* C9 amended: a degenerate motif is reported at window i iff every strand
\* character equals the motif character at its offset or is in the IUPAC base set of
\* that motif character (so a wildcard symbol in the strand is matched by the same
\* symbol in the motif).
C9_MembershipOrEquality ==
    (scan.pc = "return" /\ ScanPatternDegenerate) =>
        \A i \in ScanWindows :
            (i \in Range(scan.matches)) <=>
                \A j \in 1..Len(scan.pattern) :
                    MemberOrEqual(scan.text[i + j], scan.pattern[j])

\* The motif RT scanned over RTA: window 0 reported through the literal R, window 1
\* (TA) rejected.
C9_Witness ==
    /\ scan.pc = "return"
    /\ scan.pattern = <<"R", "T">>
    /\ scan.text = <<"R", "T", "A">>
    /\ scan.matches = <<0>>

\* The text is the pattern with every wildcard replaced by one base of its set and
\* every A/C/G/T kept.
ScanTextInstantiatesPattern ==
    /\ ScanPatternDegenerate
    /\ Range(scan.pattern) \subseteq IupacSymbols
    /\ Len(scan.text) = Len(scan.pattern)
    /\ \A j \in DOMAIN scan.pattern :
           /\ scan.text[j] \in {"A", "C", "G", "T"}
           /\ scan.text[j] \in IupacBases(scan.pattern[j])

\* C10: a literal string obtained from a degenerate motif by replacing each wildcard
\* with one base of its IUPAC set is matched by kmp_search_with_iupac at position 0.
C10_InstanceMatchesAtZero ==
    (scan.pc = "return" /\ ScanTextInstantiatesPattern) => 0 \in Range(scan.matches)

\* The motif RT against its instance GT.
C10_Witness ==
    /\ scan.pc = "return"
    /\ scan.pattern = <<"R", "T">>
    /\ scan.text = <<"G", "T">>
    /\ scan.matches = <<0>>

\* C11: reverse_complement(reverse_complement(s)) = s for every s over {A, C, G, T};
\* and in reverse_complement(s) every character of s outside {A, C, G, T} is
\* unchanged at the mirrored position.
C11_RevCompInvolution ==
    /\ (rev.pc = "twice" /\ Range(rev.s) \subseteq {"A", "C", "G", "T"}) => rev.twice = rev.s
    /\ rev.pc \in {"once", "twice"} =>
           /\ Len(rev.once) = Len(rev.s)
           /\ \A k \in DOMAIN rev.s :
                  rev.s[k] \notin {"A", "C", "G", "T"} => rev.once[Len(rev.s) + 1 - k] = rev.s[k]

\* AGCR reversed and complemented to RGCT, and back to AGCR.
C11_Witness ==
    /\ rev.pc = "twice"
    /\ rev.s = <<"A", "G", "C", "R">>
    /\ rev.once = <<"R", "G", "C", "T">>
    /\ rev.twice = rev.s

\* The index a returned lookup went through.
LookupMap == IF lookup.by = "by_id" THEN db.seq_index.id_index ELSE db.seq_index.ac_index

\* C12: query_elements_by_id and query_elements_by_ac are positional: the output is as
\* long as the input, its k-th element is Some(copy of the motif the index maps key
\* k to) when key k is in the index and None otherwise; a key given twice yields the
\* same entry twice.
C12_LookupPositional ==
    lookup.pc = "returned" =>
        /\ Len(lookup.elements) = Len(lookup.query)
        /\ \A k \in DOMAIN lookup.query :
               /\ lookup.query[k] \in DOMAIN LookupMap =>
                      lookup.elements[k] = Some(db.seq_desc.all[LookupMap[lookup.query[k]] + 1])
               /\ lookup.query[k] \notin DOMAIN LookupMap => lookup.elements[k] = None
               /\ \A k2 \in DOMAIN lookup.query :
                      lookup.query[k2] = lookup.query[k] => lookup.elements[k2] = lookup.elements[k]

\* A lookup by id of an unknown key followed by a known one.
C12_Witness ==
    /\ lookup.pc = "returned"
    /\ lookup.by = "by_id"
    /\ lookup.query = <<"GHOST", "ABOX">>
    /\ lookup.elements[1] = None
    /\ lookup.elements[2].tag = "Some"

\* C13: for every motif m of the `all` list, query_elements_by_id([m.id]) = [Some(m)]
\* and query_elements_by_ac([m.ac]) = [Some(m)]; a key that is no motif's id (resp.
\* accession) returns [None].
C13_LookupRoundTrip ==
    (lookup.pc = "returned" /\ Len(lookup.query) = 1) =>
        LET key == lookup.query[1]
            KeyOf(m) == IF lookup.by = "by_id" THEN m.id ELSE m.ac
        IN  /\ \A p \in DOMAIN db.seq_desc.all :
                   KeyOf(db.seq_desc.all[p]) = key =>
                       lookup.elements = <<Some(db.seq_desc.all[p])>>
            /\ (\A p \in DOMAIN db.seq_desc.all : KeyOf(db.seq_desc.all[p]) # key) =>
                   lookup.elements = <<None>>

\* C16: after corpus construction every motif of `all` is in exactly one of `exact`
\* and `iupac`, and neither list holds a motif absent from `all`.
C16_ExactIupacPartition ==
    corpus.pc = "built" =>
        /\ \A p \in DOMAIN db.seq_desc.all :
               (db.seq_desc.all[p] \in Range(db.seq_desc.exact))
                   # (db.seq_desc.all[p] \in Range(db.seq_desc.iupac))
        /\ Range(db.seq_desc.exact) \cup Range(db.seq_desc.iupac) \subseteq Range(db.seq_desc.all)

\* C17: corpus construction fails when two motifs share an id or an accession: a
\* corpus that was built maps every id and accession of `all` to the ordinal of its
\* own motif.
C17_DuplicateKeysRejected ==
    corpus.pc = "built" =>
        \A p \in DOMAIN db.seq_desc.all :
            /\ db.seq_index.id_index[db.seq_desc.all[p].id] = p - 1
            /\ db.seq_index.ac_index[db.seq_desc.all[p].ac] = p - 1

\* How often x is in the sequence s.
Count(s, x) == Cardinality({k \in DOMAIN s : s[k] = x})

\* The partial results of the workers k, k+1, ... of a phase, one after the other.
RECURSIVE ConcatPartials(_, _)
ConcatPartials(phase, k) ==
    IF k > Len(PhaseSeqs(phase)) THEN <<>>
    ELSE PartialDescs(phase, Query, PhaseSeqs(phase)[k]) \o ConcatPartials(phase, k + 1)

\* The forward phase of the matcher whose reverse phase is pc.
ForwardPhaseOf(phase) == IF phase = "exact_rev" THEN "exact_fwd" ELSE "iupac_fwd"

\* C18: under every interleaving of the workers, the accumulator at the end of
\* search_element_exact (resp. search_element_iupac) is the multiset union of all
\* workers' partial results for both strands, and the matches of one worker (one
\* motif, one strand) are one contiguous run, in ascending order of their position on
\* the strand that worker searched.
C18_AccumulatorIsUnion ==
    (pc \in {"exact_rev", "iupac_rev"} /\ AllWorkersDone) =>
        LET expected == ConcatPartials(ForwardPhaseOf(pc), 1) \o ConcatPartials(pc, 1)
        IN  /\ Len(descs) = Len(expected)
            /\ \A d \in Range(descs) \cup Range(expected) : Count(descs, d) = Count(expected, d)
            /\ \A phase \in {ForwardPhaseOf(pc), pc} : \A k \in DOMAIN PhaseSeqs(phase) :
                   LET partial == PartialDescs(phase, Query, PhaseSeqs(phase)[k])
                   IN  /\ \E o \in 0..(Len(descs) - Len(partial)) :
                              SubSeq(descs, o + 1, o + Len(partial)) = partial
                       /\ \A a, b \in DOMAIN partial :
                              a < b => IF phase = pc
                                       THEN partial[a].q_start > partial[b].q_start
                                       ELSE partial[a].q_start < partial[b].q_start

\* Two exact workers per strand, the second one first into the accumulator, and a run
\* of two matches.
C18_Witness ==
    /\ pc = "exact_rev"
    /\ AllWorkersDone
    /\ Len(wpc) = 2
    /\ Len(descs) = 5
    /\ descs[1].e_id = "ATBOX"
    /\ descs[2].e_id = "ABOX"
    /\ descs[3].e_id = "ABOX"
    /\ descs[3].q_start > descs[2].q_start

\* The reverse-strand subtraction goes below zero for some motif of the corpus.
QueryOverflows(query) ==
    \/ \E k \in DOMAIN db.seq_desc.exact : Overflows("exact_rev", query, db.seq_desc.exact[k])
    \/ \E k \in DOMAIN db.seq_desc.iupac : Overflows("iupac_rev", query, db.seq_desc.iupac[k])

\* C14: in search_elements a failure while processing one query never prevents the
\* SearchResults of the other queries: when the call is over, every query that did
\* not fail has its SearchResult in the output.
C14_SiblingResultsReturned ==
    pc \in {"done", "panicked"} =>
        \A q \in DOMAIN queries :
            ~(build = "debug" /\ QueryOverflows(queries[q])) =>
                \E r \in DOMAIN res_p : res_p[r].id = queries[q].id

\* C15: search_elements_single_seq returns Ok for every query string: no worker
\* panics, the reverse-strand subtraction query length + 1 - end never goes below
\* zero, and a query in which no motif occurs yields a SearchResult with no match.
C15_EveryQueryOk ==
    /\ pc # "panicked"
    /\ \A k \in DOMAIN wpc : wpc[k] # "panicked"
    /\ pc \in {"exact_rev", "iupac_rev"} =>
           \A k \in DOMAIN wpc : ~Overflows(pc, Query, PhaseSeqs(pc)[k])
    /\ \A r \in DOMAIN res_p :
           /\ \A k \in DOMAIN res_p[r].search_descs : res_p[r].search_descs[k].q_start >= 0
           /\ (\A phase \in {"exact_fwd", "exact_rev", "iupac_fwd", "iupac_rev"} :
                  \A k \in DOMAIN PhaseSeqs(phase) :
                      WorkerMatches(phase, queries[r], PhaseSeqs(phase)[k]) = <<>>)
                  => res_p[r].count = 0

\* C20: the coordinate convention is the same on both strands: a forward match of a
\* motif on the 0-based window [p, p+L) of the query and a reverse-strand match that
\* covers the same window carry the same (q_start, q_end) and differ in q_dir only;
\* in particular, for a query equal to its own reverse complement every forward
\* match has a reverse match of the same motif with the same start and end.
C20_SameConventionBothStrands ==
    \A r \in DOMAIN res_p :
        LET query == queries[r]
            n == Len(query.seq)
            found == Range(res_p[r].search_descs)
        IN  /\ \A phases \in {<<"exact_fwd", "exact_rev">>, <<"iupac_fwd", "iupac_rev">>} :
                   \A k \in DOMAIN PhaseSeqs(phases[1]) :
                       LET pattern == PhaseSeqs(phases[1])[k]
                           fwd == WorkerMatches(phases[1], query, pattern)
                           bwd == WorkerMatches(phases[2], query, pattern)
                       IN  \A a \in DOMAIN fwd : \A b \in DOMAIN bwd :
                               n - bwd[b] - Len(pattern.sq) = fwd[a] =>
                                   LET f == ForwardDesc(query, pattern, fwd[a])
                                       g == ReverseDesc(query, pattern, bwd[b])
                                   IN  /\ f \in found
                                       /\ g \in found
                                       /\ f.q_start = g.q_start
                                       /\ f.q_end = g.q_end
                                       /\ f.q_dir # g.q_dir
            /\ query.seq = reverse_complement(query.seq) =>
                   \A f \in found :
                       f.q_dir = 1 =>
                           \E g \in found :
                               /\ g.q_dir = 0
                               /\ g.e_id = f.e_id
                               /\ g.q_start = f.q_start
                               /\ g.q_end = f.q_end

\* The first sentence of C20 alone.
C20_SameWindowSameCoordinates ==
    \A r \in DOMAIN res_p :
        \A phases \in {<<"exact_fwd", "exact_rev">>, <<"iupac_fwd", "iupac_rev">>} :
            \A k \in DOMAIN PhaseSeqs(phases[1]) :
                LET query == queries[r]
                    pattern == PhaseSeqs(phases[1])[k]
                    fwd == WorkerMatches(phases[1], query, pattern)
                    bwd == WorkerMatches(phases[2], query, pattern)
                IN  \A a \in DOMAIN fwd : \A b \in DOMAIN bwd :
                        Len(query.seq) - bwd[b] - Len(pattern.sq) = fwd[a] =>
                            /\ ForwardDesc(query, pattern, fwd[a]).q_start
                                   = ReverseDesc(query, pattern, bwd[b]).q_start
                            /\ ForwardDesc(query, pattern, fwd[a]).q_end
                                   = ReverseDesc(query, pattern, bwd[b]).q_end

\* kmp_search under fair scheduling: a loop goes on to its next iteration.
SpecKmpFair == InitKmp /\ [][NextKmp]_vars /\ WF_vars(NextKmp)

\* Each iteration of the kmp_search loop advances the text pointer, or keeps it and
\* strictly lowers the pattern pointer.
C19_KmpVariant ==
    [][kmp_search_iterate =>
          \/ kmp'.i > kmp.i
          \/ kmp'.i = kmp.i /\ kmp'.j < kmp.j]_vars

\* kmp_search returns for every text and pattern.
C19_KmpTerminates == <>(kmp.pc = "return")

\* How far search_elements has come: the query it is at, the phase of that query,
\* and the steps its workers have taken.
SearchProgress ==
    LET phase == CASE pc = "exact_fwd" -> 1
                   [] pc = "exact_rev" -> 2
                   [] pc = "iupac_fwd" -> 3
                   [] pc = "iupac_rev" -> 4
                   [] pc = "done" -> 5
                   [] pc = "panicked" -> 6
                   [] OTHER -> 0
    IN  qi * 1000 + phase * 100
           + Cardinality({k \in DOMAIN wpc : wpc[k] = "locked"})
           + 2 * Cardinality({k \in DOMAIN wpc : wpc[k] \in {"done", "panicked"}})

\* Every step of the search is a step forward: no behaviour goes round in a cycle.
C19_SearchAdvances == [][SearchProgress' > SearchProgress]_vars

\* The search stops only when search_elements is over or has been unwound by a panic:
\* in every other state a worker, a join or a return can take its step.
C19_NoDeadlock ==
    pc \notin {"done", "panicked"} =>
        \/ pc = "start"
        \/ \E k \in DOMAIN wpc : wpc[k] = "ready" /\ lock = 0
        \/ \E k \in DOMAIN wpc : wpc[k] = "locked" /\ lock = k
        \/ \A k \in DOMAIN wpc : wpc[k] \in {"done", "panicked"}

\* C19: a search once started always completes: the kmp_search loop terminates, every
\* worker takes and releases the accumulator lock, and search_elements_single_seq
\* eventually returns: the call, once its workers are started, is left by its return
\* to search_elements and in no other way.
C19_SearchReturns ==
    [][(/\ pc \in {"exact_fwd", "exact_rev", "iupac_fwd", "iupac_rev"}
        /\ pc' \notin {"exact_fwd", "exact_rev", "iupac_fwd", "iupac_rev"}) => pc' = "start"]_vars

\* The number of matches the workers of the motifs k, k+1, ... of a phase find in query.
RECURSIVE PhaseMatchCount(_, _, _)
PhaseMatchCount(phase, query, k) ==
    IF k > Len(PhaseSeqs(phase)) THEN 0
    ELSE Len(WorkerMatches(phase, query, PhaseSeqs(phase)[k]))
             + PhaseMatchCount(phase, query, k + 1)

\* The matches of query: what the workers of the four phases build for it.
QueryMatches(query) ==
    UNION {UNION {Range(PartialDescs(phase, query, PhaseSeqs(phase)[k])) :
                     k \in DOMAIN PhaseSeqs(phase)} :
              phase \in {"exact_fwd", "exact_rev", "iupac_fwd", "iupac_rev"}}

\* C21: search_elements returns one SearchResult per processed query, in the order
\* of the input list: the k-th result carries the id of the k-th query, a count equal
\* to the number of its matches, and only matches of that query, with its id as q_id.
C21_OneResultPerQuery ==
    /\ pc = "done" => Len(res_p) = Len(queries)
    /\ pc \notin {"done", "panicked"} => Len(res_p) = qi - 1
    /\ \A r \in DOMAIN res_p :
           /\ res_p[r].id = queries[r].id
           /\ res_p[r].count = Len(res_p[r].search_descs)
           /\ res_p[r].count = PhaseMatchCount("exact_fwd", queries[r], 1)
                                   + PhaseMatchCount("exact_rev", queries[r], 1)
                                   + PhaseMatchCount("iupac_fwd", queries[r], 1)
                                   + PhaseMatchCount("iupac_rev", queries[r], 1)
           /\ \A k \in DOMAIN res_p[r].search_descs :
                  /\ res_p[r].search_descs[k].q_id = queries[r].id
                  /\ res_p[r].search_descs[k] \in QueryMatches(queries[r])

\* search_elements has returned the results of two queries with different ids and
\* different numbers of matches, the sibling first.
C21_Witness ==
    /\ pc = "done"
    /\ Len(res_p) = 2
    /\ res_p[1].id = "Q2"
    /\ res_p[2].id = "Q1"
    /\ res_p[1].count = 1
    /\ res_p[2].count > 1
    /\ res_p[2].search_descs[1].q_id = "Q1"

====
